---- MODULE Spec2Model ----
(***************************************************************************)
(* Thermal transport kernels of teal: the conservative advection kernel    *)
(* with full upwinding (HeatAdvectionConservative), the boundary flux      *)
(* kernel (ThermalFluidFluxBC) and the elementary kernels (HeatConduction, *)
(* HeatConvection, HeatSource, HeatAccumulation).                          *)
(*                                                                         *)
(* A Real of the source is modelled as an exact rational <<n, d>> in       *)
(* lowest terms with d > 0; d = 0 encodes the non-finite results of a      *)
(* division by zero (<<1,0>> = +inf, <<-1,0>> = -inf, <<0,0>> = NaN).      *)
(* Vectors and matrices are 0-based functions, as in the source.           *)
(***************************************************************************)
EXTENDS Integers, Sequences, FiniteSets, TLC

----------------------------------------------------------------------------
(* Real arithmetic *)

Abs(k) == IF k < 0 THEN -k ELSE k

Sign(k) == IF k > 0 THEN 1 ELSE IF k < 0 THEN -1 ELSE 0

RECURSIVE GCD(_, _)
GCD(a, b) == IF b = 0 THEN a ELSE GCD(b, a % b)

Norm(n, d) ==
    IF d = 1 THEN <<n, 1>>
    ELSE IF d = 0 THEN <<Sign(n), 0>>
    ELSE LET g == GCD(Abs(n), Abs(d))
         IN  <<(Sign(d) * n) \div g, Abs(d) \div g>>

NaN == <<0, 0>>

R(k) == <<k, 1>>

Half == <<1, 2>>

IsFinite(x) == x[2] # 0

RNeg(x) == <<-x[1], x[2]>>

RMul(x, y) == Norm(x[1] * y[1], x[2] * y[2])

RAdd(x, y) ==
    IF IsFinite(x) /\ IsFinite(y) THEN Norm(x[1] * y[2] + y[1] * x[2], x[2] * y[2])
    ELSE IF x = NaN \/ y = NaN THEN NaN
    ELSE IF ~IsFinite(x) /\ ~IsFinite(y) THEN (IF x = y THEN x ELSE NaN)
    ELSE IF IsFinite(x) THEN y ELSE x

RSub(x, y) == RAdd(x, RNeg(y))

RDiv(x, y) ==
    IF IsFinite(x) /\ IsFinite(y) THEN Norm(x[1] * y[2], x[2] * y[1])
    ELSE IF x = NaN \/ y = NaN THEN NaN
    ELSE IF ~IsFinite(x) /\ ~IsFinite(y) THEN NaN
    ELSE IF IsFinite(x) THEN R(0)
    ELSE <<x[1] * (IF y[1] < 0 THEN -1 ELSE 1), 0>>

\* x >= 0.0 and x > 0.0 (both false for NaN)
RGeq0(x) == x # NaN /\ x[1] >= 0

RGt0(x) == x[1] > 0

\* the scalar product of two RealVectorValue
Dot(a, b) == RAdd(RAdd(RMul(a[1], b[1]), RMul(a[2], b[2])), RMul(a[3], b[3]))

VScale(c, a) == <<RMul(c, a[1]), RMul(c, a[2]), RMul(c, a[3])>>

VAdd(a, b) == <<RAdd(a[1], b[1]), RAdd(a[2], b[2]), RAdd(a[3], b[3])>>

RV(x, y, z) == <<R(x), R(y), R(z)>>

----------------------------------------------------------------------------
(* Bounds of the model *)

MaxNodes == 3

MaxQp == 2

MaxThreads == 2

----------------------------------------------------------------------------
VARIABLES
    \* the element the framework has initialised the kernel on
    num_nodes,        \* _test.size()
    phi_size,         \* _phi.size()
    n_points,         \* _qrule->n_points()
    grad_test,        \* _grad_test[_i][_qp]
    JxW,              \* _JxW[_qp]
    coord,            \* _coord[_qp]
    ux, uy, uz,       \* velocity components at the quadrature points
    density,          \* _density[_qp]
    heat_cap,         \* _heat_cap[_qp]
    volfrac,          \* _volfrac[_qp]
    u_nodal,          \* _u_nodal[n]
    \* what the framework supplies at the quadrature points besides
    test,             \* _test[_i][_qp]
    phi,              \* _phi[_j][_qp]
    grad_phi,         \* _grad_phi[_j][_qp]
    normals,          \* _normals[_qp]
    u,                \* _u[_qp]
    grad_u,           \* _grad_u[_qp]
    u_dot,            \* _u_dot[_qp]
    du_dot_du,        \* _du_dot_du[_qp]
    outside_temp,     \* ThermalFluidFluxBC::_outside_temp[_qp]
    hs,               \* HeatConvection::_hs[_qp]
    other_temp,       \* HeatConvection::_other_temp[_qp]
    specarea,         \* HeatConvection::_specarea[_qp]
    conductivity,     \* HeatConduction::_conductivity[_qp]
    coupled_source,   \* HeatSource::_coupled_source[_qp]
    \* the HeatAdvectionConservative object
    upwinding_type,   \* the parameter upwinding_type of the input file, or "unset"
    upwinding,        \* _upwinding
    local_re,         \* _local_re
    local_ke,         \* _local_ke
    upwind_node,      \* _upwind_node
    dtotal_mass_out,  \* _dtotal_mass_out
    \* observation of the last call of fullUpwind
    last_call,        \* the pass, or "none": no call on the element the kernel is on
    total_mass_out,   \* the local total_mass_out when the call returned
    total_in,         \* the local total_in when the call returned
    div_by_zero,      \* a division by total_in = 0 was executed
    redistributed,    \* number of downwind nodes the redistribution loop rescaled
    \* the HeatAccumulation object
    coef,             \* _coef
    \* observation of the last call of a computeQp function
    qp_call,          \* which function, for which jvar, at which _i, _j, _qp
    qp_result,        \* the Real it returned
    \* the element threads writing back to the auxiliary (save-in) variable
    has_save_in,      \* _has_save_in
    has_diag_save_in, \* _has_diag_save_in
    phase,            \* the pass the threads run: "residual" or "jacobian"
    u_dofs,           \* the solution the nodal values are taken from, by global dof
    pc,               \* where each thread is in fullUpwind
    spin_mtx,         \* Threads::spin_mtx: the thread holding it, 0 when it is free
    thread_vec,       \* each thread's _local_re, or diag in the Jacobian pass
    pos,              \* the entry of the vector each thread's add_vector is at
    reg,              \* the value of the entry of the solution add_vector has read
    solution          \* var->sys().solution() of the save-in variable, by global dof

elemVars == <<num_nodes, phi_size, n_points, grad_test, JxW, coord, ux, uy, uz,
              density, heat_cap, volfrac, u_nodal>>

advVars == <<upwinding_type, upwinding, local_re, local_ke, upwind_node, dtotal_mass_out,
             last_call, total_mass_out, total_in, div_by_zero, redistributed>>

pointVars == <<test, phi, grad_phi, normals, u, grad_u, u_dot, du_dot_du, outside_temp,
               hs, other_temp, specarea, conductivity, coupled_source>>

qpVars == <<coef, qp_call, qp_result>>

saveVars == <<has_save_in, has_diag_save_in, phase, u_dofs, pc, spin_mtx, thread_vec, pos,
              reg, solution>>

vars == <<elemVars, pointVars, advVars, qpVars, saveVars>>

Nodes == 0 .. (num_nodes - 1)

Trials == 0 .. (phi_size - 1)

Qps == 0 .. (n_points - 1)

----------------------------------------------------------------------------
(* Inputs: elements and field snapshots the framework can hand to the kernel *)

\* gradient of a test function (constant over the element, as for linear elements)
GradSet == {RV(1, 0, 0), RV(0, 1, 1), RV(-1, -1, -1)}

\* nodal values of the unknown
USet == {R(-1), R(2)}

\* field snapshot at one quadrature point
QpFields ==
    { [ux |-> R(1),  uy |-> R(1), uz |-> R(1), density |-> R(1), heat_cap |-> R(1),
       volfrac |-> R(1), JxW |-> R(1), coord |-> R(1)],
      [ux |-> R(-1), uy |-> R(0), uz |-> R(0), density |-> R(2), heat_cap |-> R(3),
       volfrac |-> Half, JxW |-> <<1, 4>>, coord |-> R(2)] }

\* trial-function counts: the nodal family (equal to the test count) or a single
\* trial function (constant monomial)
PhiSizes(n) == {n, 1}

\* what a read outside the storage of _local_ke may return
Garbage == {R(0), R(5)}

\* _local_ke(n, n) lies outside the storage of the num_nodes x phi_size matrix for
\* some node n
ReadsOutside == (num_nodes - 1) * phi_size + (num_nodes - 1) >= num_nodes * phi_size

----------------------------------------------------------------------------
(* HeatAdvectionConservative *)

\* what negSpeedQp reads at test function i and quadrature point qp
FluxPoint(i, qp) ==
    [grad_test |-> grad_test[i][qp], ux |-> ux[qp], uy |-> uy[qp], uz |-> uz[qp],
     density |-> density[qp], heat_cap |-> heat_cap[qp], volfrac |-> volfrac[qp]]

\* _vec, assembled from the three velocity components at the point p
Vec(p) == <<p.ux, p.uy, p.uz>>

negSpeedQp(p) ==
    RMul(RMul(RMul(RNeg(Dot(p.grad_test, Vec(p))), p.density), p.heat_cap), p.volfrac)

ZeroVector(n) == [i \in 0 .. (n - 1) |-> R(0)]

ZeroMatrix(m, n) == [i \in 0 .. (m - 1) |-> [j \in 0 .. (n - 1) |-> R(0)]]

\* _local_re(_i) after the quadrature loop has run over the points 0 .. q-1
RECURSIVE RawFluxLoop(_, _)
RawFluxLoop(i, q) ==
    IF q = 0 THEN R(0)
    ELSE RAdd(RawFluxLoop(i, q - 1),
              RMul(RMul(JxW[q - 1], coord[q - 1]), negSpeedQp(FluxPoint(i, q - 1))))

RawFlux == [i \in Nodes |-> RawFluxLoop(i, n_points)]

\* faulty variant: a node with zero flux counted as downwind
IsUpwindStrict(flux) == RGt0(flux)

IsUpwind(flux) == RGeq0(flux)

\* faulty variant: only the nodes with a positive flux marked upwind
UpwindNodesStrict(re) == [i \in DOMAIN re |-> RGt0(re[i])]

UpwindNodes(re) == [i \in DOMAIN re |-> IsUpwind(re[i])]

\* _local_ke(i, j) as DenseMatrix reads it: row-major storage, no range check;
\* g is what a read past the end of the storage returns
KeRead(ke, i, j, g) ==
    LET idx == i * phi_size + j
    IN  IF idx < num_nodes * phi_size
        THEN ke[idx \div phi_size][idx % phi_size]
        ELSE g

KeAdd(ke, i, j, x) == [ke EXCEPT ![i][j] = RAdd(@, x)]

\* faulty variant: the entry added to whenever the matrix has it, whatever the counts
DiagonalEntryUnchecked(s, n, jac) ==
    IF jac /\ n < phi_size THEN KeAdd(s.ke, n, n, s.re[n]) ELSE s.ke

DiagonalEntry(s, n, jac) ==
    IF jac /\ num_nodes = phi_size THEN KeAdd(s.ke, n, n, s.re[n]) ELSE s.ke

\* faulty variant: the raw flux taken for the outgoing mass
MassOutRaw(flux, unode) == flux

MassOut(flux, unode) == RMul(flux, unode)

\* faulty variant: the inflow capacity weighted by the nodal value
OutflowStepWeightedIn(s, un, n, jac, g) ==
    IF s.up[n]
    THEN LET ke1 == DiagonalEntry(s, n, jac)
             dmo1 == IF jac
                     THEN [s.dmo EXCEPT ![n] = RAdd(@, KeRead(ke1, n, n, g))]
                     ELSE s.dmo
             ren == MassOut(s.re[n], un[n])
         IN  [s EXCEPT !.ke = ke1, !.dmo = dmo1, !.re[n] = ren,
                       !.total_mass_out = RAdd(@, ren)]
    ELSE [s EXCEPT !.total_in = RSub(@, RMul(s.re[n], un[n]))]

\* one iteration of the first loop over the nodes; un is _u_nodal
OutflowStep(s, un, n, jac, g) ==
    IF s.up[n]
    THEN LET ke1 == DiagonalEntry(s, n, jac)
             dmo1 == IF jac
                     THEN [s.dmo EXCEPT ![n] = RAdd(@, KeRead(ke1, n, n, g))]
                     ELSE s.dmo
             ren == MassOut(s.re[n], un[n])
         IN  [s EXCEPT !.ke = ke1, !.dmo = dmo1, !.re[n] = ren,
                       !.total_mass_out = RAdd(@, ren)]
    ELSE [s EXCEPT !.total_in = RSub(@, s.re[n])]

\* (each loop state is bound by a one-element set so that it is evaluated once)
RECURSIVE OutflowLoop(_, _, _, _, _)
OutflowLoop(s, un, n, jac, g) ==
    IF n = num_nodes THEN s
    ELSE CHOOSE r \in {OutflowLoop(OutflowStep(t, un, n, jac, g), un, n + 1, jac, g) :
                       t \in {s}} : TRUE

\* faulty variant: the sensitivity not divided by total_in
JacobianShareUndivided(flux, dmo, tin) == RMul(flux, dmo)

JacobianShare(flux, dmo, tin) == RDiv(RMul(flux, dmo), tin)

\* the loop over the trial functions of a downwind row n
RECURSIVE InflowRow(_, _, _, _)
InflowRow(ke, s, n, j) ==
    IF j = phi_size THEN ke
    ELSE CHOOSE r \in {InflowRow(KeAdd(k, n, j, JacobianShare(s.re[n], s.dmo[j], s.total_in)),
                                 s, n, j + 1) : k \in {ke}} : TRUE

\* faulty variant: the outgoing mass not divided by total_in
RedistributeUndivided(flux, tmo, tin) == RMul(flux, tmo)

Redistribute(flux, tmo, tin) == RMul(flux, RDiv(tmo, tin))

\* faulty variant: the redistribution loop not restricted to the downwind nodes
IsDownwindAlways(up, n) == TRUE

IsDownwind(up, n) == ~up[n]

\* faulty variant: the row of a downwind node left out of the matrix
InflowStepResidualOnly(s, n, jac) ==
    IF IsDownwind(s.up, n)
    THEN [s EXCEPT !.re[n] = Redistribute(s.re[n], s.total_mass_out, s.total_in),
                   !.divz = @ \/ (s.total_in = R(0)),
                   !.redis = @ + 1]
    ELSE s

\* one iteration of the second loop over the nodes
InflowStep(s, n, jac) ==
    IF IsDownwind(s.up, n)
    THEN [s EXCEPT !.ke = IF jac THEN InflowRow(s.ke, s, n, 0) ELSE s.ke,
                   !.re[n] = Redistribute(s.re[n], s.total_mass_out, s.total_in),
                   !.divz = @ \/ (s.total_in = R(0)),
                   !.redis = @ + 1]
    ELSE s

RECURSIVE InflowLoop(_, _, _)
InflowLoop(s, n, jac) ==
    IF n = num_nodes THEN s
    ELSE CHOOSE r \in {InflowLoop(InflowStep(t, n, jac), n + 1, jac) : t \in {s}} : TRUE

\* the scratch of fullUpwind after prepareVectorTag, prepareMatrixTag (Jacobian
\* pass only; the residual pass leaves _local_ke and _dtotal_mass_out as they are),
\* the raw flux loop and the classification
Classified(re0, ke, dmo, jac) ==
    [re |-> re0, up |-> UpwindNodes(re0),
     ke |-> IF jac THEN ZeroMatrix(num_nodes, phi_size) ELSE ke,
     dmo |-> IF jac THEN ZeroVector(num_nodes) ELSE dmo,
     total_mass_out |-> R(0), total_in |-> R(0),
     divz |-> FALSE, redis |-> 0]

\* fullUpwind up to the hand-over of _local_re and _local_ke to the assembly, for
\* the raw fluxes re0 and the nodal values un
FullUpwindResult(re0, un, ke, dmo, jac, g) ==
    CHOOSE r \in {InflowLoop(OutflowLoop(Classified(rf, ke, dmo, jac), un, 0, jac, g), 0, jac) :
                   rf \in {re0}} : TRUE

fullUpwind(jac, g) ==
    \E s \in {FullUpwindResult(RawFlux, u_nodal, local_ke, dtotal_mass_out, jac, g)} :
        /\ local_re' = s.re
        /\ local_ke' = s.ke
        /\ upwind_node' = s.up
        /\ dtotal_mass_out' = s.dmo
        /\ total_mass_out' = s.total_mass_out
        /\ total_in' = s.total_in
        /\ div_by_zero' = s.divz
        /\ redistributed' = s.redis
        /\ last_call' = IF jac THEN "jacobian" ELSE "residual"

----------------------------------------------------------------------------
(* The computeQp functions: one quadrature point, one test and one trial function *)

\* the left-to-right product of the Reals of xs
RECURSIVE RProd(_)
RProd(xs) ==
    IF Len(xs) = 1 THEN xs[1]
    ELSE RMul(RProd(SubSeq(xs, 1, Len(xs) - 1)), xs[Len(xs)])

\* everything the framework supplies at _i = i, _j = j, _qp = qp
Point(i, j, qp) ==
    [test |-> test[i][qp], phi |-> phi[j][qp],
     grad_test |-> grad_test[i][qp], grad_phi |-> grad_phi[j][qp],
     normals |-> normals[qp], u |-> u[qp], grad_u |-> grad_u[qp],
     u_dot |-> u_dot[qp], du_dot_du |-> du_dot_du[qp],
     ux |-> ux[qp], uy |-> uy[qp], uz |-> uz[qp],
     density |-> density[qp], heat_cap |-> heat_cap[qp], volfrac |-> volfrac[qp],
     outside_temp |-> outside_temp[qp], hs |-> hs[qp], other_temp |-> other_temp[qp],
     specarea |-> specarea[qp], conductivity |-> conductivity[qp],
     coupled_source |-> coupled_source[qp],
     JxW |-> JxW[qp], coord |-> coord[qp]]

\* the variables a kernel may be coupled to, by the name of the parameter; "other"
\* is a variable of the system none of the kernels is coupled to
JVars ==
    {"vel_x", "vel_y", "vel_z", "density", "heat_capacity", "volume_frac",
     "outside_temperature", "convection_coeff", "coupled_temperature", "specific_area",
     "thermal_conductivity", "coupled_source", "other"}

(* ThermalFluidFluxBC *)

\* (_vec)*_normals[_qp] > 0.0
Outflow(p) == RGt0(Dot(Vec(p), p.normals))

\* faulty variant: the interior value used on both branches
BCResidualInteriorOnly(p) ==
    RProd(<<p.test, Dot(Vec(p), p.normals), p.u, p.density, p.heat_cap, p.volfrac>>)

\* faulty variant: the inflow branch without the factor v.n
BCResidualInflowUnscaled(p) ==
    IF Outflow(p)
    THEN RProd(<<p.test, Dot(Vec(p), p.normals), p.u, p.density, p.heat_cap, p.volfrac>>)
    ELSE RProd(<<p.test, p.outside_temp, p.density, p.heat_cap, p.volfrac>>)

ThermalFluidFluxBC_computeQpResidual(p) ==
    IF Outflow(p)
    THEN RAdd(R(0), RProd(<<p.test, Dot(Vec(p), p.normals), p.u, p.density, p.heat_cap,
                            p.volfrac>>))
    ELSE RAdd(R(0), RProd(<<p.test, Dot(Vec(p), p.normals), p.outside_temp, p.density,
                            p.heat_cap, p.volfrac>>))

\* faulty variant: the outflow expression on both branches
BCJacobianUnbranched(p) ==
    RProd(<<p.test, Dot(Vec(p), p.normals), p.phi, p.density, p.heat_cap, p.volfrac>>)

ThermalFluidFluxBC_computeQpJacobian(p) ==
    IF Outflow(p)
    THEN RAdd(R(0), RProd(<<p.test, Dot(Vec(p), p.normals), p.phi, p.density, p.heat_cap,
                            p.volfrac>>))
    ELSE RAdd(R(0), R(0))

\* the branch of computeQpOffDiagJacobian for the velocity component k (1, 2, 3)
BCVelocityEntry(p, k) ==
    IF Outflow(p)
    THEN RAdd(R(0), RProd(<<p.test, p.u, RMul(p.phi, p.normals[k]), p.density, p.heat_cap,
                            p.volfrac>>))
    ELSE RAdd(R(0), RProd(<<p.test, p.outside_temp, RMul(p.phi, p.normals[k]), p.density,
                            p.heat_cap, p.volfrac>>))

ThermalFluidFluxBC_computeQpOffDiagJacobian(p, jvar) ==
    IF jvar = "vel_x" THEN BCVelocityEntry(p, 1)
    ELSE IF jvar = "vel_y" THEN BCVelocityEntry(p, 2)
    ELSE IF jvar = "vel_z" THEN BCVelocityEntry(p, 3)
    ELSE R(0)

(* HeatConduction *)

\* faulty variant: the integrand weighted by the quadrature weight
HeatConductionResidualWeighted(p) ==
    RMul(RMul(p.JxW, p.coord),
         Dot(VScale(RMul(p.volfrac, p.conductivity), p.grad_test), p.grad_u))

HeatConduction_computeQpResidual(p) ==
    Dot(VScale(RMul(p.volfrac, p.conductivity), p.grad_test), p.grad_u)

HeatConduction_computeQpJacobian(p) ==
    Dot(VScale(RMul(p.volfrac, p.conductivity), p.grad_test), p.grad_phi)

HeatConduction_computeQpOffDiagJacobian(p, jvar) ==
    IF jvar = "thermal_conductivity"
    THEN Dot(VScale(RMul(p.volfrac, p.phi), p.grad_test), p.grad_u)
    ELSE IF jvar = "volume_frac"
    THEN Dot(VScale(RMul(p.phi, p.conductivity), p.grad_test), p.grad_u)
    ELSE R(0)

(* HeatConvection *)

HeatConvection_computeQpResidual(p) ==
    RProd(<<p.test, p.hs, p.specarea, p.volfrac, RSub(p.u, p.other_temp)>>)

HeatConvection_computeQpJacobian(p) ==
    RProd(<<p.test, p.hs, p.specarea, p.volfrac, p.phi>>)

\* faulty variant: the entry for the coupled temperature with the sign of the diagonal
HeatConvectionOffDiagUnsigned(p, jvar) ==
    IF jvar = "coupled_temperature"
    THEN RProd(<<p.test, p.hs, p.specarea, p.volfrac, p.phi>>)
    ELSE IF jvar = "convection_coeff"
    THEN RProd(<<p.test, p.phi, p.specarea, p.volfrac, RSub(p.u, p.other_temp)>>)
    ELSE IF jvar = "volume_frac"
    THEN RProd(<<p.test, p.hs, p.specarea, p.phi, RSub(p.u, p.other_temp)>>)
    ELSE IF jvar = "specific_area"
    THEN RProd(<<p.test, p.hs, p.phi, p.volfrac, RSub(p.u, p.other_temp)>>)
    ELSE R(0)

HeatConvection_computeQpOffDiagJacobian(p, jvar) ==
    IF jvar = "coupled_temperature"
    THEN RProd(<<RNeg(p.test), p.hs, p.specarea, p.volfrac, p.phi>>)
    ELSE IF jvar = "convection_coeff"
    THEN RProd(<<p.test, p.phi, p.specarea, p.volfrac, RSub(p.u, p.other_temp)>>)
    ELSE IF jvar = "volume_frac"
    THEN RProd(<<p.test, p.hs, p.specarea, p.phi, RSub(p.u, p.other_temp)>>)
    ELSE IF jvar = "specific_area"
    THEN RProd(<<p.test, p.hs, p.phi, p.volfrac, RSub(p.u, p.other_temp)>>)
    ELSE R(0)

(* HeatSource *)

HeatSource_computeQpResidual(p) == RMul(RNeg(p.test), p.coupled_source)

HeatSource_computeQpJacobian(p) == R(0)

HeatSource_computeQpOffDiagJacobian(p, jvar) ==
    IF jvar = "coupled_source" THEN RMul(RNeg(p.test), p.phi) ELSE R(0)

(* HeatAccumulation, a CoefTimeDerivative *)

\* the value computeQpResidual and computeQpJacobian assign to _coef
AccumulationCoef(p) == RProd(<<p.density, p.heat_cap, p.volfrac>>)

\* the base class: the time derivative term weighted by the coefficient c
CoefTimeDerivative_computeQpResidual(c, p) == RMul(c, RMul(p.test, p.u_dot))

CoefTimeDerivative_computeQpJacobian(c, p) ==
    RMul(c, RProd(<<p.test, p.phi, p.du_dot_du>>))

HeatAccumulation_computeQpOffDiagJacobian(p, jvar) ==
    IF jvar = "density"
    THEN RProd(<<p.phi, p.heat_cap, p.volfrac, p.test, p.u_dot>>)
    ELSE IF jvar = "heat_capacity"
    THEN RProd(<<p.density, p.phi, p.volfrac, p.test, p.u_dot>>)
    ELSE IF jvar = "volume_frac"
    THEN RProd(<<p.density, p.heat_cap, p.phi, p.test, p.u_dot>>)
    ELSE R(0)

(* HeatAdvectionConservative without upwinding *)

HeatAdvectionConservative_computeQpResidual(p) == RMul(negSpeedQp(p), p.u)

HeatAdvectionConservative_computeQpJacobian(p) == RMul(negSpeedQp(p), p.phi)

\* the branch of computeQpOffDiagJacobian for the velocity component k (1, 2, 3)
AdvectionVelocityEntry(p, k) ==
    RProd(<<RNeg(p.u), RMul(p.phi, p.grad_test[k]), p.density, p.heat_cap, p.volfrac>>)

\* faulty variant: the vel_y branch reading component 0 of the gradient, as the vel_x branch
AdvectionOffDiagCopied(p, jvar) ==
    IF jvar = "vel_x" \/ jvar = "vel_y" THEN AdvectionVelocityEntry(p, 1)
    ELSE IF jvar = "vel_z" THEN AdvectionVelocityEntry(p, 3)
    ELSE IF jvar = "density"
    THEN RProd(<<RNeg(p.u), Dot(p.grad_test, Vec(p)), p.phi, p.heat_cap, p.volfrac>>)
    ELSE IF jvar = "heat_capacity"
    THEN RProd(<<RNeg(p.u), Dot(p.grad_test, Vec(p)), p.density, p.phi, p.volfrac>>)
    ELSE IF jvar = "volume_frac"
    THEN RProd(<<RNeg(p.u), Dot(p.grad_test, Vec(p)), p.density, p.heat_cap, p.phi>>)
    ELSE R(0)

HeatAdvectionConservative_computeQpOffDiagJacobian(p, jvar) ==
    IF jvar = "vel_x" THEN AdvectionVelocityEntry(p, 1)
    ELSE IF jvar = "vel_y" THEN AdvectionVelocityEntry(p, 2)
    ELSE IF jvar = "vel_z" THEN AdvectionVelocityEntry(p, 3)
    ELSE IF jvar = "density"
    THEN RProd(<<RNeg(p.u), Dot(p.grad_test, Vec(p)), p.phi, p.heat_cap, p.volfrac>>)
    ELSE IF jvar = "heat_capacity"
    THEN RProd(<<RNeg(p.u), Dot(p.grad_test, Vec(p)), p.density, p.phi, p.volfrac>>)
    ELSE IF jvar = "volume_frac"
    THEN RProd(<<RNeg(p.u), Dot(p.grad_test, Vec(p)), p.density, p.heat_cap, p.phi>>)
    ELSE R(0)

(* Kernel, the class of the framework HeatAdvectionConservative derives from *)

\* the sum over the quadrature points 0 .. q-1 of _JxW[_qp] * _coord[_qp] * f[_qp]
RECURSIVE QuadratureSum(_, _)
QuadratureSum(f, q) ==
    IF q = 0 THEN R(0)
    ELSE RAdd(QuadratureSum(f, q - 1), RMul(RMul(JxW[q - 1], coord[q - 1]), f[q - 1]))

\* the local residual Kernel::computeResidual assembles from computeQpResidual
PointwiseResidual ==
    [i \in Nodes |->
        QuadratureSum([qp \in Qps |->
                          HeatAdvectionConservative_computeQpResidual(Point(i, 0, qp))],
                      n_points)]

\* the local matrix Kernel::computeJacobian assembles from computeQpJacobian
PointwiseJacobian ==
    [i \in Nodes |-> [j \in Trials |->
        QuadratureSum([qp \in Qps |->
                          HeatAdvectionConservative_computeQpJacobian(Point(i, j, qp))],
                      n_points)]]

\* the last call of the loops of Kernel over _i, _j and _qp
LastQpCall(fn) ==
    [kernel |-> "HeatAdvectionConservative", fn |-> fn, jvar |-> "none",
     i |-> num_nodes - 1, j |-> IF fn = "residual" THEN 0 ELSE phi_size - 1,
     qp |-> n_points - 1]

Kernel_computeResidual ==
    /\ local_re' = PointwiseResidual
    /\ qp_call' = LastQpCall("residual")
    /\ qp_result' = HeatAdvectionConservative_computeQpResidual(
                         Point(num_nodes - 1, 0, n_points - 1))
    /\ UNCHANGED <<coef, local_ke, upwind_node, dtotal_mass_out, last_call, total_mass_out,
                   total_in, div_by_zero, redistributed>>

Kernel_computeJacobian ==
    /\ local_ke' = PointwiseJacobian
    /\ qp_call' = LastQpCall("jacobian")
    /\ qp_result' = HeatAdvectionConservative_computeQpJacobian(
                         Point(num_nodes - 1, phi_size - 1, n_points - 1))
    /\ UNCHANGED <<coef, local_re, upwind_node, dtotal_mass_out, last_call, total_mass_out,
                   total_in, div_by_zero, redistributed>>

\* Kernel::computeOffDiagJacobian, which HeatAdvectionConservative does not override:
\* the block of the coupled variable jvar is assembled from computeQpOffDiagJacobian
\* whatever the upwinding option is
PointwiseOffDiagJacobian(jvar) ==
    [i \in Nodes |-> [j \in Trials |->
        QuadratureSum([qp \in Qps |->
                          HeatAdvectionConservative_computeQpOffDiagJacobian(Point(i, j, qp),
                                                                             jvar)],
                      n_points)]]

\* the variables the framework asks the advection kernel a block for: the six it is
\* coupled to and a variable of the system it is not coupled to
AdvectionJVars ==
    {"vel_x", "vel_y", "vel_z", "density", "heat_capacity", "volume_frac", "other"}

computeOffDiagJacobian ==
    /\ \E jvar \in AdvectionJVars :
         /\ local_ke' = PointwiseOffDiagJacobian(jvar)
         /\ qp_call' = [LastQpCall("offdiag") EXCEPT !.jvar = jvar]
         /\ qp_result' = HeatAdvectionConservative_computeQpOffDiagJacobian(
                              Point(num_nodes - 1, phi_size - 1, n_points - 1), jvar)
    /\ UNCHANGED <<coef, upwinding_type, upwinding, local_re, upwind_node, dtotal_mass_out,
                   last_call, total_mass_out, total_in, div_by_zero, redistributed>>
    /\ UNCHANGED <<elemVars, pointVars, saveVars>>

(* HeatAdvectionConservative: the two entry points *)

\* faulty variant: the switch taking the case full for every value
SwitchFullAlways(upw) == TRUE

\* switch (_upwinding): the case UpwindingType::full
SwitchFull(upw) == upw = "full"

computeResidual ==
    /\ IF SwitchFull(upwinding)
       THEN fullUpwind(FALSE, R(0)) /\ UNCHANGED qpVars
       ELSE Kernel_computeResidual
    /\ UNCHANGED <<elemVars, pointVars, upwinding_type, upwinding, saveVars>>

computeJacobian ==
    /\ IF SwitchFull(upwinding)
       THEN /\ \E g \in (IF ReadsOutside THEN Garbage ELSE {R(0)}) : fullUpwind(TRUE, g)
            /\ UNCHANGED qpVars
       ELSE Kernel_computeJacobian
    /\ UNCHANGED <<elemVars, pointVars, upwinding_type, upwinding, saveVars>>

(* The kernel object after construction, initialised on one element *)

InitElement ==
    /\ num_nodes \in 1 .. MaxNodes
    /\ phi_size \in PhiSizes(num_nodes)
    /\ n_points \in 1 .. MaxQp
    /\ \E gt \in [Nodes -> GradSet] : grad_test = [i \in Nodes |-> [qp \in Qps |-> gt[i]]]
    /\ \E f \in [Qps -> QpFields] :
         /\ ux = [qp \in Qps |-> f[qp].ux]
         /\ uy = [qp \in Qps |-> f[qp].uy]
         /\ uz = [qp \in Qps |-> f[qp].uz]
         /\ density = [qp \in Qps |-> f[qp].density]
         /\ heat_cap = [qp \in Qps |-> f[qp].heat_cap]
         /\ volfrac = [qp \in Qps |-> f[qp].volfrac]
         /\ JxW = [qp \in Qps |-> f[qp].JxW]
         /\ coord = [qp \in Qps |-> f[qp].coord]
    /\ u_nodal \in [Nodes -> USet]

\* validParams: MooseEnum upwinding_type("none full", "none")
UpwindingTypes == {"none", "full"}

validParams == [upwinding_type |-> "none"]

\* getParam: the value of the input file, or the default of validParams
getParam(given) == IF given = "unset" THEN validParams.upwinding_type ELSE given

InitKernel ==
    /\ upwinding_type = "full"
    /\ upwinding = getParam(upwinding_type)
    /\ local_re = ZeroVector(0)
    /\ local_ke = ZeroMatrix(0, 0)
    /\ upwind_node = ZeroVector(0)
    /\ dtotal_mass_out = ZeroVector(0)
    /\ last_call = "none"
    /\ total_mass_out = R(0)
    /\ total_in = R(0)
    /\ div_by_zero = FALSE
    /\ redistributed = 0

\* the computeQp functions have not been called
InitQp ==
    /\ coef = R(1)
    /\ qp_call = [kernel |-> "none", fn |-> "none", jvar |-> "none", i |-> 0, j |-> 0, qp |-> 0]
    /\ qp_result = R(0)

\* fullUpwind reads none of the shape-function values and fields of pointVars
InitNoPoint ==
    /\ test = <<>> /\ phi = <<>> /\ grad_phi = <<>> /\ normals = <<>>
    /\ u = <<>> /\ grad_u = <<>> /\ u_dot = <<>> /\ du_dot_du = <<>>
    /\ outside_temp = <<>> /\ hs = <<>> /\ other_temp = <<>> /\ specarea = <<>>
    /\ conductivity = <<>> /\ coupled_source = <<>>

\* no save-in variable, and no element thread besides the caller
InitNoThreads ==
    /\ has_save_in = FALSE /\ has_diag_save_in = FALSE
    /\ phase = "none" /\ u_dofs = <<>> /\ pc = <<>> /\ spin_mtx = 0
    /\ thread_vec = <<>> /\ pos = <<>> /\ reg = <<>> /\ solution = <<>>

Init == InitElement /\ InitNoPoint /\ InitKernel /\ InitQp /\ InitNoThreads

Next == computeResidual \/ computeJacobian

Spec == Init /\ [][Next]_vars

(* The framework calling the computeQp functions *)

\* function fn of the kernel returns r for jvar at _i = i, _j = j, _qp = qp
Returns(kernel, fn, jvar, i, j, qp, r) ==
    /\ qp_call' = [kernel |-> kernel, fn |-> fn, jvar |-> jvar, i |-> i, j |-> j, qp |-> qp]
    /\ qp_result' = r
    /\ UNCHANGED <<elemVars, pointVars, advVars, saveVars>>

BCResidual ==
    \E i \in Nodes, j \in Trials, qp \in Qps :
        /\ Returns("ThermalFluidFluxBC", "residual", "none", i, j, qp,
                   ThermalFluidFluxBC_computeQpResidual(Point(i, j, qp)))
        /\ UNCHANGED coef

BCJacobian ==
    \E i \in Nodes, j \in Trials, qp \in Qps :
        /\ Returns("ThermalFluidFluxBC", "jacobian", "none", i, j, qp,
                   ThermalFluidFluxBC_computeQpJacobian(Point(i, j, qp)))
        /\ UNCHANGED coef

BCOffDiagJacobian ==
    \E i \in Nodes, j \in Trials, qp \in Qps, jvar \in JVars :
        /\ Returns("ThermalFluidFluxBC", "offdiag", jvar, i, j, qp,
                   ThermalFluidFluxBC_computeQpOffDiagJacobian(Point(i, j, qp), jvar))
        /\ UNCHANGED coef

ConductionResidual ==
    \E i \in Nodes, j \in Trials, qp \in Qps :
        /\ Returns("HeatConduction", "residual", "none", i, j, qp,
                   HeatConduction_computeQpResidual(Point(i, j, qp)))
        /\ UNCHANGED coef

ConductionJacobian ==
    \E i \in Nodes, j \in Trials, qp \in Qps :
        /\ Returns("HeatConduction", "jacobian", "none", i, j, qp,
                   HeatConduction_computeQpJacobian(Point(i, j, qp)))
        /\ UNCHANGED coef

ConductionOffDiagJacobian ==
    \E i \in Nodes, j \in Trials, qp \in Qps, jvar \in JVars :
        /\ Returns("HeatConduction", "offdiag", jvar, i, j, qp,
                   HeatConduction_computeQpOffDiagJacobian(Point(i, j, qp), jvar))
        /\ UNCHANGED coef

ConvectionResidual ==
    \E i \in Nodes, j \in Trials, qp \in Qps :
        /\ Returns("HeatConvection", "residual", "none", i, j, qp,
                   HeatConvection_computeQpResidual(Point(i, j, qp)))
        /\ UNCHANGED coef

ConvectionJacobian ==
    \E i \in Nodes, j \in Trials, qp \in Qps :
        /\ Returns("HeatConvection", "jacobian", "none", i, j, qp,
                   HeatConvection_computeQpJacobian(Point(i, j, qp)))
        /\ UNCHANGED coef

ConvectionOffDiagJacobian ==
    \E i \in Nodes, j \in Trials, qp \in Qps, jvar \in JVars :
        /\ Returns("HeatConvection", "offdiag", jvar, i, j, qp,
                   HeatConvection_computeQpOffDiagJacobian(Point(i, j, qp), jvar))
        /\ UNCHANGED coef

SourceResidual ==
    \E i \in Nodes, j \in Trials, qp \in Qps :
        /\ Returns("HeatSource", "residual", "none", i, j, qp,
                   HeatSource_computeQpResidual(Point(i, j, qp)))
        /\ UNCHANGED coef

SourceJacobian ==
    \E i \in Nodes, j \in Trials, qp \in Qps :
        /\ Returns("HeatSource", "jacobian", "none", i, j, qp,
                   HeatSource_computeQpJacobian(Point(i, j, qp)))
        /\ UNCHANGED coef

SourceOffDiagJacobian ==
    \E i \in Nodes, j \in Trials, qp \in Qps, jvar \in JVars :
        /\ Returns("HeatSource", "offdiag", jvar, i, j, qp,
                   HeatSource_computeQpOffDiagJacobian(Point(i, j, qp), jvar))
        /\ UNCHANGED coef

\* HeatAccumulation::computeQpResidual: _coef is assigned, then the base class
\* evaluates with it
AccumulationResidual ==
    \E i \in Nodes, j \in Trials, qp \in Qps :
        /\ coef' = AccumulationCoef(Point(i, j, qp))
        /\ Returns("HeatAccumulation", "residual", "none", i, j, qp,
                   CoefTimeDerivative_computeQpResidual(coef', Point(i, j, qp)))

\* faulty variant: _coef left as the last call assigned it
AccumulationJacobianStale ==
    \E i \in Nodes, j \in Trials, qp \in Qps :
        /\ coef' = coef
        /\ Returns("HeatAccumulation", "jacobian", "none", i, j, qp,
                   CoefTimeDerivative_computeQpJacobian(coef, Point(i, j, qp)))

AccumulationJacobian ==
    \E i \in Nodes, j \in Trials, qp \in Qps :
        /\ coef' = AccumulationCoef(Point(i, j, qp))
        /\ Returns("HeatAccumulation", "jacobian", "none", i, j, qp,
                   CoefTimeDerivative_computeQpJacobian(coef', Point(i, j, qp)))

AccumulationOffDiagJacobian ==
    \E i \in Nodes, j \in Trials, qp \in Qps, jvar \in JVars :
        /\ Returns("HeatAccumulation", "offdiag", jvar, i, j, qp,
                   HeatAccumulation_computeQpOffDiagJacobian(Point(i, j, qp), jvar))
        /\ UNCHANGED coef

\* Kernel::computeResidual and Kernel::computeJacobian, which computeResidual and
\* computeJacobian delegate to without upwinding, call the two functions
AdvectionResidual ==
    /\ upwinding = "none"
    /\ \E i \in Nodes, j \in Trials, qp \in Qps :
        /\ Returns("HeatAdvectionConservative", "residual", "none", i, j, qp,
                   HeatAdvectionConservative_computeQpResidual(Point(i, j, qp)))
        /\ UNCHANGED coef

AdvectionJacobian ==
    /\ upwinding = "none"
    /\ \E i \in Nodes, j \in Trials, qp \in Qps :
        /\ Returns("HeatAdvectionConservative", "jacobian", "none", i, j, qp,
                   HeatAdvectionConservative_computeQpJacobian(Point(i, j, qp)))
        /\ UNCHANGED coef

AdvectionOffDiagJacobian ==
    \E i \in Nodes, j \in Trials, qp \in Qps, jvar \in JVars :
        /\ Returns("HeatAdvectionConservative", "offdiag", jvar, i, j, qp,
                   HeatAdvectionConservative_computeQpOffDiagJacobian(Point(i, j, qp), jvar))
        /\ UNCHANGED coef

(* Inputs of the computeQp functions *)

\* test function, trial function and their gradients at the point
ShapeSet ==
    { [test |-> R(1), phi |-> R(1), grad_test |-> RV(1, 0, 0), grad_phi |-> RV(1, 0, 0)],
      [test |-> Half, phi |-> <<1, 4>>, grad_test |-> RV(0, 1, 1),
       grad_phi |-> RV(-1, -1, -1)] }

\* the unknown, its time derivative and the derivative of that by the unknown
UnknownSet ==
    { [u |-> R(400), u_dot |-> R(3), du_dot_du |-> R(2)],
      [u |-> R(-1), u_dot |-> <<-1, 2>>, du_dot_du |-> R(2)] }

GradUSet == {RV(1, 0, 0), RV(0, 2, -1)}

VelocitySet == {RV(1, 1, 1), RV(-1, 0, 0)}

\* outward unit normals of a boundary
NormalSet == {RV(1, 0, 0), RV(0, 1, 0), <<<<3, 5>>, R(0), <<-4, 5>>>>}

ThermoSet ==
    { [density |-> R(1), heat_cap |-> R(1), volfrac |-> R(1)],
      [density |-> R(2), heat_cap |-> R(3), volfrac |-> Half] }

ExchangeSet ==
    { [hs |-> R(5), specarea |-> R(3), other_temp |-> R(300), conductivity |-> R(2),
       coupled_source |-> R(7)],
      [hs |-> R(2), specarea |-> Half, other_temp |-> R(-1), conductivity |-> R(3),
       coupled_source |-> R(-4)] }

OutsideTempSet == {R(300), R(5)}

\* one value at every quadrature point, one value for every shape function
AtQps(x) == [qp \in Qps |-> x]

AtRows(n, x) == [i \in 0 .. (n - 1) |-> [qp \in Qps |-> x]]

\* an element of one node, one trial function and one quadrature point, with
\* the values at the point drawn from the given sets
InitPoint(shapes, unknowns, gradus, velocities, normalset, thermos, exchanges, outsides) ==
    /\ num_nodes = 1 /\ phi_size = 1 /\ n_points = 1
    /\ JxW = AtQps(<<1, 4>>) /\ coord = AtQps(R(2))
    /\ u_nodal = ZeroVector(num_nodes)
    /\ \E sh \in shapes :
         /\ test = AtRows(num_nodes, sh.test)
         /\ phi = AtRows(phi_size, sh.phi)
         /\ grad_test = AtRows(num_nodes, sh.grad_test)
         /\ grad_phi = AtRows(phi_size, sh.grad_phi)
    /\ \E un \in unknowns :
         /\ u = AtQps(un.u) /\ u_dot = AtQps(un.u_dot) /\ du_dot_du = AtQps(un.du_dot_du)
    /\ \E gu \in gradus : grad_u = AtQps(gu)
    /\ \E v \in velocities : ux = AtQps(v[1]) /\ uy = AtQps(v[2]) /\ uz = AtQps(v[3])
    /\ \E n \in normalset : normals = AtQps(n)
    /\ \E th \in thermos :
         /\ density = AtQps(th.density) /\ heat_cap = AtQps(th.heat_cap)
         /\ volfrac = AtQps(th.volfrac)
    /\ \E ex \in exchanges :
         /\ hs = AtQps(ex.hs) /\ specarea = AtQps(ex.specarea)
         /\ other_temp = AtQps(ex.other_temp) /\ conductivity = AtQps(ex.conductivity)
         /\ coupled_source = AtQps(ex.coupled_source)
    /\ outside_temp \in [Qps -> outsides]

\* the fields the elementary kernels read vary; the boundary normal and the
\* outside temperature, which they do not read, are fixed
InitKernelPoint ==
    InitPoint(ShapeSet, UnknownSet, GradUSet, VelocitySet, {RV(1, 0, 0)}, ThermoSet,
              ExchangeSet, {R(300)})

\* the fields the boundary kernel reads vary; grad_u and the exchange fields, which
\* it does not read, are fixed
InitBoundaryPoint ==
    InitPoint(ShapeSet, UnknownSet, {RV(1, 0, 0)}, VelocitySet, NormalSet, ThermoSet,
              {CHOOSE ex \in ExchangeSet : ex.hs = R(5)}, OutsideTempSet)

\* the advection kernel, with either upwinding option, before its first call
InitAdvection ==
    /\ upwinding_type \in UpwindingTypes \cup {"unset"}
    /\ upwinding = getParam(upwinding_type)
    /\ local_re = ZeroVector(0)
    /\ local_ke = ZeroMatrix(0, 0)
    /\ upwind_node = ZeroVector(0)
    /\ dtotal_mass_out = ZeroVector(0)
    /\ last_call = "none"
    /\ total_mass_out = R(0)
    /\ total_in = R(0)
    /\ div_by_zero = FALSE
    /\ redistributed = 0

InitKernels == InitKernelPoint /\ InitAdvection /\ InitQp /\ InitNoThreads

NextKernels ==
    \/ ConductionResidual \/ ConductionJacobian \/ ConductionOffDiagJacobian
    \/ ConvectionResidual \/ ConvectionJacobian \/ ConvectionOffDiagJacobian
    \/ SourceResidual \/ SourceJacobian \/ SourceOffDiagJacobian
    \/ AccumulationResidual \/ AccumulationJacobian \/ AccumulationOffDiagJacobian
    \/ AdvectionResidual \/ AdvectionJacobian \/ AdvectionOffDiagJacobian

SpecKernels == InitKernels /\ [][NextKernels]_vars

InitBC == InitBoundaryPoint /\ InitAdvection /\ InitQp /\ InitNoThreads

NextBC == BCResidual \/ BCJacobian \/ BCOffDiagJacobian

SpecBC == InitBC /\ [][NextBC]_vars

----------------------------------------------------------------------------
(* HeatAccumulation on an element whose quadrature points differ in density, *)
(* heat capacity, volume fraction and time derivative                         *)

InitAccumulation ==
    /\ num_nodes = 1 /\ phi_size = 1 /\ n_points = MaxQp
    /\ JxW = AtQps(<<1, 4>>) /\ coord = AtQps(R(2))
    /\ u_nodal = ZeroVector(num_nodes)
    /\ \E sh \in ShapeSet :
         /\ test = AtRows(num_nodes, sh.test)
         /\ phi = AtRows(phi_size, sh.phi)
         /\ grad_test = AtRows(num_nodes, sh.grad_test)
         /\ grad_phi = AtRows(phi_size, sh.grad_phi)
    /\ \E un \in [Qps -> UnknownSet] :
         /\ u = [qp \in Qps |-> un[qp].u]
         /\ u_dot = [qp \in Qps |-> un[qp].u_dot]
         /\ du_dot_du = [qp \in Qps |-> un[qp].du_dot_du]
    /\ \E th \in [Qps -> ThermoSet] :
         /\ density = [qp \in Qps |-> th[qp].density]
         /\ heat_cap = [qp \in Qps |-> th[qp].heat_cap]
         /\ volfrac = [qp \in Qps |-> th[qp].volfrac]
    /\ grad_u = AtQps(RV(1, 0, 0)) /\ normals = AtQps(RV(1, 0, 0))
    /\ ux = AtQps(R(1)) /\ uy = AtQps(R(1)) /\ uz = AtQps(R(1))
    /\ outside_temp = AtQps(R(300))
    /\ hs = AtQps(R(5)) /\ other_temp = AtQps(R(300)) /\ specarea = AtQps(R(3))
    /\ conductivity = AtQps(R(2)) /\ coupled_source = AtQps(R(7))
    /\ InitAdvection /\ InitQp /\ InitNoThreads

NextAccumulation ==
    AccumulationResidual \/ AccumulationJacobian \/ AccumulationOffDiagJacobian

SpecAccumulation == InitAccumulation /\ [][NextAccumulation]_vars

----------------------------------------------------------------------------
(* The advection kernel with either upwinding option, on an element with its *)
(* shape functions                                                            *)

\* value of shape function k of a family of n functions at the quadrature point
\* qp: the n values at a point differ and sum to 1 (a single function is constant 1)
ShapeValue(k, qp, n) == Norm(k + qp + 1, (n * (n - 1)) \div 2 + n * (qp + 1))

\* the unknown at the quadrature point qp: the first k shape functions of the
\* kernel's variable weighted by the nodal values un
RECURSIVE Interpolate(_, _, _)
Interpolate(un, qp, k) ==
    IF k = 0 THEN R(0)
    ELSE RAdd(Interpolate(un, qp, k - 1), RMul(un[k - 1], ShapeValue(k - 1, qp, num_nodes)))

\* the shape functions of the element and the unknown interpolated from its nodal
\* values; the fields the advection kernel does not read are fixed
InitShapes ==
    /\ test = [i \in Nodes |-> [qp \in Qps |-> ShapeValue(i, qp, num_nodes)]]
    /\ phi = [j \in Trials |-> [qp \in Qps |-> ShapeValue(j, qp, phi_size)]]
    /\ grad_phi = [j \in Trials |-> [qp \in Qps |-> grad_test[j][qp]]]
    /\ u = [qp \in Qps |-> Interpolate(u_nodal, qp, num_nodes)]
    /\ normals = AtQps(RV(1, 0, 0)) /\ grad_u = AtQps(RV(1, 0, 0))
    /\ u_dot = AtQps(R(0)) /\ du_dot_du = AtQps(R(0)) /\ outside_temp = AtQps(R(300))
    /\ hs = AtQps(R(5)) /\ other_temp = AtQps(R(300)) /\ specarea = AtQps(R(3))
    /\ conductivity = AtQps(R(2)) /\ coupled_source = AtQps(R(7))

\* the nodal values alternate over the nodes
InitDispatch ==
    /\ InitElement
    /\ \A i \in Nodes : u_nodal[i] = (IF i % 2 = 0 THEN R(2) ELSE R(-1))
    /\ InitShapes /\ InitAdvection /\ InitQp /\ InitNoThreads

NextDispatch == computeResidual \/ computeJacobian

SpecDispatch == InitDispatch /\ [][NextDispatch]_vars

----------------------------------------------------------------------------
(* The advection kernel with full upwinding and the blocks of its coupled      *)
(* variables                                                                   *)

\* elements of at least two nodes, the nodal values alternating over the nodes
InitCoupled ==
    /\ InitElement
    /\ num_nodes >= 2
    /\ \A i \in Nodes : u_nodal[i] = (IF i % 2 = 0 THEN R(2) ELSE R(-1))
    /\ InitShapes /\ InitKernel /\ InitQp /\ InitNoThreads

NextCoupled == computeResidual \/ computeJacobian \/ computeOffDiagJacobian

SpecCoupled == InitCoupled /\ [][NextCoupled]_vars

----------------------------------------------------------------------------
(* fullUpwind on several element threads, with the write-back to the save-in *)
(* variable. Every thread has its own copy of the kernel and its own element  *)
(* of a chain of elements of equal shape; neighbours share their end node.    *)

Threads == 1 .. MaxThreads

Dofs == 0 .. (MaxThreads * (num_nodes - 1))

\* var->dofIndices() on the element of thread t
dofIndices(t) == [n \in Nodes |-> (t - 1) * (num_nodes - 1) + n]

\* _u_nodal on the element of thread t
NodalValues(t) == [n \in Nodes |-> u_dofs[dofIndices(t)[n]]]

\* DenseVector diag of the Jacobian pass: diag(i) = _local_ke(i, i)
Diag(ke) == [i \in Nodes |-> KeRead(ke, i, i, R(0))]

\* the flag that guards the write-back of the pass
SaveInEnabled == IF phase = "residual" THEN has_save_in ELSE has_diag_save_in

\* what no step of a thread changes: the mesh, the fields, the solution the nodal
\* values come from, and the kernel object of the caller
ThreadFrame ==
    UNCHANGED <<elemVars, pointVars, advVars, qpVars, has_save_in, has_diag_save_in, phase,
                u_dofs>>

\* fullUpwind of thread t up to the constructor of the scoped_lock: the vector to
\* write back is the local residual, or the diagonal of the local matrix
ThreadCompute(t) ==
    /\ pc[t] = "start"
    /\ \E s \in {FullUpwindResult(RawFlux, NodalValues(t), ZeroMatrix(num_nodes, phi_size),
                                   ZeroVector(num_nodes), phase = "jacobian", R(0))} :
         thread_vec' = [thread_vec EXCEPT ![t] = IF phase = "residual" THEN s.re
                                                 ELSE Diag(s.ke)]
    /\ pc' = [pc EXCEPT ![t] = IF SaveInEnabled THEN "lock" ELSE "done"]
    /\ UNCHANGED <<spin_mtx, pos, reg, solution>>
    /\ ThreadFrame

\* faulty variant: the lock taken without regard to its holder
TryAcquireAlways(mtx) == TRUE

\* Threads::spin_mutex::scoped_lock lock(Threads::spin_mtx) succeeds once the mutex
\* is free
TryAcquire(mtx) == mtx = 0

ThreadLock(t) ==
    /\ pc[t] = "lock"
    /\ TryAcquire(spin_mtx)
    /\ spin_mtx' = t
    /\ pos' = [pos EXCEPT ![t] = 0]
    /\ pc' = [pc EXCEPT ![t] = "read"]
    /\ UNCHANGED <<thread_vec, reg, solution>>
    /\ ThreadFrame

\* add_vector, entry pos[t]: the entry of the solution is read ...
ThreadRead(t) ==
    /\ pc[t] = "read"
    /\ reg' = [reg EXCEPT ![t] = solution[dofIndices(t)[pos[t]]]]
    /\ pc' = [pc EXCEPT ![t] = "write"]
    /\ UNCHANGED <<spin_mtx, thread_vec, pos, solution>>
    /\ ThreadFrame

\* ... and written back with the entry of the vector added
ThreadWrite(t) ==
    /\ pc[t] = "write"
    /\ solution' = [solution EXCEPT ![dofIndices(t)[pos[t]]] =
                                        RAdd(reg[t], thread_vec[t][pos[t]])]
    /\ pos' = [pos EXCEPT ![t] = @ + 1]
    /\ pc' = [pc EXCEPT ![t] = IF pos[t] + 1 = num_nodes THEN "unlock" ELSE "read"]
    /\ UNCHANGED <<spin_mtx, thread_vec, reg>>
    /\ ThreadFrame

\* the scoped_lock goes out of scope
ThreadUnlock(t) ==
    /\ pc[t] = "unlock"
    /\ spin_mtx' = 0
    /\ pc' = [pc EXCEPT ![t] = "done"]
    /\ UNCHANGED <<thread_vec, pos, reg, solution>>
    /\ ThreadFrame

\* elements of two nodes with one quadrature point; the solution and the flags vary
InitSaveIn ==
    /\ num_nodes = 2 /\ phi_size = num_nodes /\ n_points = 1
    /\ grad_test \in [Nodes -> [Qps -> GradSet]]
    /\ \E f \in QpFields :
         /\ ux = AtQps(f.ux) /\ uy = AtQps(f.uy) /\ uz = AtQps(f.uz)
         /\ density = AtQps(f.density) /\ heat_cap = AtQps(f.heat_cap)
         /\ volfrac = AtQps(f.volfrac) /\ JxW = AtQps(f.JxW) /\ coord = AtQps(f.coord)
    /\ u_nodal = ZeroVector(num_nodes)
    /\ has_save_in \in BOOLEAN /\ has_diag_save_in \in BOOLEAN
    /\ phase \in {"residual", "jacobian"}
    /\ u_dofs \in [Dofs -> USet]
    /\ pc = [t \in Threads |-> "start"]
    /\ spin_mtx = 0
    /\ thread_vec = [t \in Threads |-> <<>>]
    /\ pos = [t \in Threads |-> 0]
    /\ reg = [t \in Threads |-> R(0)]
    /\ solution = [d \in Dofs |-> R(0)]
    /\ InitNoPoint /\ InitKernel /\ InitQp

NextSaveIn ==
    \/ \E t \in Threads : ThreadCompute(t)
    \/ \E t \in Threads : ThreadLock(t)
    \/ \E t \in Threads : ThreadRead(t)
    \/ \E t \in Threads : ThreadWrite(t)
    \/ \E t \in Threads : ThreadUnlock(t)

SpecSaveIn == InitSaveIn /\ [][NextSaveIn]_vars

----------------------------------------------------------------------------
(* One kernel object visiting the elements of a mesh: the framework moves it to *)
(* an element, the scratch of the kernel stays as the last call left it         *)

GradSeq == <<RV(1, 0, 0), RV(0, 1, 1), RV(-1, -1, -1)>>

\* the elements of the mesh: node count, trial-function count, and a number k that
\* selects the quadrature rule, the gradients and the nodal values
MeshElements ==
    { [num_nodes |-> n, phi_size |-> ps, k |-> k, field |-> f] :
        n \in 1 .. MaxNodes, ps \in 1 .. MaxNodes, k \in 0 .. 1, f \in QpFields }

OnMesh(el) == el.phi_size \in PhiSizes(el.num_nodes)

ElementPoints(el) == 0 .. (el.k % MaxQp)

ElementGrad(el) ==
    [i \in 0 .. (el.num_nodes - 1) |->
        [qp \in ElementPoints(el) |-> GradSeq[((i + el.k) % 3) + 1]]]

ElementNodal(el) ==
    [i \in 0 .. (el.num_nodes - 1) |-> IF (i + el.k) % 2 = 0 THEN R(2) ELSE R(-1)]

\* the kernel is constructed and the framework puts it on the element el
InitVisits ==
    /\ \E el \in MeshElements :
         /\ OnMesh(el)
         /\ num_nodes = el.num_nodes /\ phi_size = el.phi_size
         /\ n_points = (el.k % MaxQp) + 1
         /\ grad_test = ElementGrad(el)
         /\ u_nodal = ElementNodal(el)
         /\ ux = [qp \in ElementPoints(el) |-> el.field.ux]
         /\ uy = [qp \in ElementPoints(el) |-> el.field.uy]
         /\ uz = [qp \in ElementPoints(el) |-> el.field.uz]
         /\ density = [qp \in ElementPoints(el) |-> el.field.density]
         /\ heat_cap = [qp \in ElementPoints(el) |-> el.field.heat_cap]
         /\ volfrac = [qp \in ElementPoints(el) |-> el.field.volfrac]
         /\ JxW = [qp \in ElementPoints(el) |-> el.field.JxW]
         /\ coord = [qp \in ElementPoints(el) |-> el.field.coord]
    /\ InitNoPoint /\ InitKernel /\ InitQp /\ InitNoThreads

\* the framework moves the kernel to the element el: _test, _phi, _qrule, the
\* coupled values and _u_nodal refer to el from now on
reinit ==
    /\ \E el \in MeshElements :
         /\ OnMesh(el)
         /\ num_nodes' = el.num_nodes /\ phi_size' = el.phi_size
         /\ n_points' = (el.k % MaxQp) + 1
         /\ grad_test' = ElementGrad(el)
         /\ u_nodal' = ElementNodal(el)
         /\ ux' = [qp \in ElementPoints(el) |-> el.field.ux]
         /\ uy' = [qp \in ElementPoints(el) |-> el.field.uy]
         /\ uz' = [qp \in ElementPoints(el) |-> el.field.uz]
         /\ density' = [qp \in ElementPoints(el) |-> el.field.density]
         /\ heat_cap' = [qp \in ElementPoints(el) |-> el.field.heat_cap]
         /\ volfrac' = [qp \in ElementPoints(el) |-> el.field.volfrac]
         /\ JxW' = [qp \in ElementPoints(el) |-> el.field.JxW]
         /\ coord' = [qp \in ElementPoints(el) |-> el.field.coord]
    /\ last_call' = "none"
    /\ UNCHANGED <<upwinding_type, upwinding, local_re, local_ke, upwind_node,
                   dtotal_mass_out, total_mass_out, total_in, div_by_zero, redistributed>>
    /\ UNCHANGED <<pointVars, qpVars, saveVars>>

NextVisits == reinit \/ computeResidual \/ computeJacobian

SpecVisits == InitVisits /\ [][NextVisits]_vars

----------------------------------------------------------------------------
(* Properties of fullUpwind *)

\* the sum of f over the finite index set S
RECURSIVE SumOver(_, _)
SumOver(f, S) ==
    IF S = {} THEN R(0)
    ELSE LET x == CHOOSE y \in S : TRUE
         IN  RAdd(f[x], SumOver(f, S \ {x}))

\* the partition of the nodes by the sign of the raw nodal fluxes rf
OutflowNodes(rf) == {i \in DOMAIN rf : rf[i][1] >= 0}

InflowNodes(rf) == {i \in DOMAIN rf : rf[i][1] < 0}

\* what the outflow nodes send out and what the inflow nodes can take
ExpectedMassOut(rf) ==
    SumOver([i \in DOMAIN rf |-> RMul(rf[i], u_nodal[i])], OutflowNodes(rf))

ExpectedTotalIn(rf) == SumOver([i \in DOMAIN rf |-> RNeg(rf[i])], InflowNodes(rf))

\* (in the formulas below rf is RawFlux, out the outgoing mass expected for it and
\* tin the inflow capacity expected for it, each bound once)

\* C1: after a residual pass on an element with total_in > 0, the outgoing mass
\* of the outflow nodes equals the negative of the sum of the redistributed
\* residuals of the inflow nodes, so the entries of the local residual sum to zero
C1_Conservation ==
    last_call = "residual" =>
        \A rf \in {RawFlux} :
            RGt0(ExpectedTotalIn(rf)) =>
                /\ ExpectedMassOut(rf) = RNeg(SumOver(local_re, InflowNodes(rf)))
                /\ SumOver(local_re, Nodes) = R(0)

C1_Witness ==
    /\ last_call = "residual"
    /\ n_points >= 2
    /\ \E rf \in {RawFlux} :
         /\ RGt0(ExpectedTotalIn(rf))
         /\ Cardinality(InflowNodes(rf)) >= 2
         /\ ExpectedMassOut(rf) # R(0)

\* C2: after either pass, node i is marked upwind exactly if its raw nodal flux,
\* accumulated over all quadrature points, is >= 0; a flux of 0 is outflow
C2_Classification ==
    last_call # "none" =>
        \A rf \in {RawFlux} :
            /\ DOMAIN upwind_node = Nodes
            /\ \A i \in Nodes : upwind_node[i] <=> (rf[i][1] >= 0)
            /\ \A i \in Nodes : rf[i] = R(0) => upwind_node[i]

C2_Witness ==
    /\ last_call = "jacobian"
    /\ \E rf \in {RawFlux} : \E i, k, m \in Nodes :
         /\ rf[i] = R(0) /\ upwind_node[i]
         /\ rf[k][1] < 0 /\ ~upwind_node[k]
         /\ rf[m][1] > 0 /\ upwind_node[m]

\* C3: when every node is classified outflow (total_in = 0), no division by zero
\* is executed, no redistribution step runs and every entry of the local residual
\* is the outflow value rawFlux[i] * u_nodal[i]
C3_DegenerateInflow ==
    last_call # "none" =>
        \A rf \in {RawFlux} :
            InflowNodes(rf) = {} =>
                /\ total_in = R(0)
                /\ ~div_by_zero
                /\ redistributed = 0
                /\ \A i \in Nodes : IsFinite(local_re[i])
                /\ \A i \in Nodes : local_re[i] = RMul(rf[i], u_nodal[i])

C3_Witness ==
    /\ last_call = "residual"
    /\ num_nodes >= 2
    /\ InflowNodes(RawFlux) = {}
    /\ \E i \in Nodes : local_re[i] # R(0)

\* C4: after a residual pass each outflow node carries rawFlux[i] * u_nodal[i],
\* total_mass_out is the sum of those values, total_in the sum of -rawFlux[i] over
\* the inflow nodes, and each inflow node carries
\* rawFlux[i] * (total_mass_out / total_in)
C4_ResidualValues ==
    last_call = "residual" =>
        \A rf \in {RawFlux} :
            \A out \in {ExpectedMassOut(rf)} : \A tin \in {ExpectedTotalIn(rf)} :
                /\ DOMAIN local_re = Nodes
                /\ \A i \in OutflowNodes(rf) : local_re[i] = RMul(rf[i], u_nodal[i])
                /\ total_mass_out = out
                /\ total_in = tin
                /\ \A i \in InflowNodes(rf) : local_re[i] = RMul(rf[i], RDiv(out, tin))

C4_Witness ==
    /\ last_call = "residual"
    /\ \E rf \in {RawFlux} :
         /\ Cardinality(OutflowNodes(rf)) >= 2
         /\ \E i \in InflowNodes(rf) : local_re[i][2] > 1

\* the local residual the residual pass yields for the raw fluxes rf and the
\* nodal values un
ResidualFor(rf, un) == FullUpwindResult(rf, un, local_ke, dtotal_mass_out, FALSE, R(0)).re

\* the change of the local residual for a unit increase of u_nodal[j]
UnitChange(rf, j) ==
    LET r1 == ResidualFor(rf, [u_nodal EXCEPT ![j] = RAdd(@, R(1))])
        r0 == ResidualFor(rf, u_nodal)
    IN  [n \in DOMAIN rf |-> RSub(r1[n], r0[n])]

\* C5: after a Jacobian pass with as many trial as test functions, entry (n, j) of
\* the local matrix is the change of the residual of node n for a unit increase of
\* u_nodal[j]: rawFlux[n] on the diagonal of an outflow row, and
\* rawFlux[n] * dMassOut[j] / total_in in an inflow row
C5_JacobianConsistency ==
    (last_call = "jacobian" /\ num_nodes = phi_size) =>
        \A rf \in {RawFlux} : \A tin \in {ExpectedTotalIn(rf)} :
            /\ \A j \in Nodes : \A d \in {UnitChange(rf, j)} :
                 \A n \in Nodes : local_ke[n][j] = d[n]
            /\ \A n \in OutflowNodes(rf) : \A j \in Nodes :
                 local_ke[n][j] = IF j = n THEN rf[n] ELSE R(0)
            /\ \A j \in Nodes :
                 dtotal_mass_out[j] = IF j \in OutflowNodes(rf) THEN rf[j] ELSE R(0)
            /\ \A n \in InflowNodes(rf) : \A j \in Nodes :
                 local_ke[n][j] = RDiv(RMul(rf[n], dtotal_mass_out[j]), tin)

C5_Witness ==
    /\ last_call = "jacobian"
    /\ num_nodes = phi_size
    /\ \E rf \in {RawFlux} : \E n \in InflowNodes(rf) : \E j \in OutflowNodes(rf) :
         /\ local_ke[n][j] # R(0)
         /\ local_ke[j][j] # R(0)
         /\ j # 0

----------------------------------------------------------------------------
(* Properties of the computeQp functions *)

\* the point of the last call of a computeQp function
CalledPoint == Point(qp_call.i, qp_call.j, qp_call.qp)

Called(kernel, fn) == qp_call.kernel = kernel /\ qp_call.fn = fn

\* the point p with the coefficient of the trial function raised by h in the
\* variable coupled as jvar: the value of that variable changes by h * phi
Perturb(p, jvar, h) ==
    LET d == RMul(R(h), p.phi)
    IN  CASE jvar = "vel_x" -> [p EXCEPT !.ux = RAdd(@, d)]
          [] jvar = "vel_y" -> [p EXCEPT !.uy = RAdd(@, d)]
          [] jvar = "vel_z" -> [p EXCEPT !.uz = RAdd(@, d)]
          [] jvar = "density" -> [p EXCEPT !.density = RAdd(@, d)]
          [] jvar = "heat_capacity" -> [p EXCEPT !.heat_cap = RAdd(@, d)]
          [] jvar = "volume_frac" -> [p EXCEPT !.volfrac = RAdd(@, d)]
          [] jvar = "outside_temperature" -> [p EXCEPT !.outside_temp = RAdd(@, d)]
          [] jvar = "convection_coeff" -> [p EXCEPT !.hs = RAdd(@, d)]
          [] jvar = "coupled_temperature" -> [p EXCEPT !.other_temp = RAdd(@, d)]
          [] jvar = "specific_area" -> [p EXCEPT !.specarea = RAdd(@, d)]
          [] jvar = "thermal_conductivity" -> [p EXCEPT !.conductivity = RAdd(@, d)]
          [] jvar = "coupled_source" -> [p EXCEPT !.coupled_source = RAdd(@, d)]
          [] OTHER -> p

\* the same for the kernel's own variable: u changes by phi and grad_u by grad_phi
PerturbU(p) ==
    [p EXCEPT !.u = RAdd(@, p.phi), !.grad_u = VAdd(@, p.grad_phi),
              !.u_dot = RAdd(@, RMul(p.du_dot_du, p.phi))]

\* v.n at the point p
NormalSpeed(p) ==
    RAdd(RAdd(RMul(p.ux, p.normals[1]), RMul(p.uy, p.normals[2])), RMul(p.uz, p.normals[3]))

\* rho * cp * volfrac at the point p
HeatPerVolume(p) == RMul(p.density, RMul(p.heat_cap, p.volfrac))

\* C6: the boundary residual is test * (v.n) * u * rho * cp * volfrac when v.n > 0
\* and test * (v.n) * T_outside * rho * cp * volfrac when v.n <= 0
C6_BoundaryResidual ==
    Called("ThermalFluidFluxBC", "residual") =>
        \A p \in {CalledPoint} : \A vn \in {NormalSpeed(p)} :
            /\ vn[1] > 0 =>
                 qp_result = RMul(RMul(p.test, vn), RMul(p.u, HeatPerVolume(p)))
            /\ vn[1] <= 0 =>
                 qp_result = RMul(RMul(p.test, vn), RMul(p.outside_temp, HeatPerVolume(p)))

C6_Witness ==
    /\ Called("ThermalFluidFluxBC", "residual")
    /\ NormalSpeed(CalledPoint)[1] < 0
    /\ CalledPoint.u # CalledPoint.outside_temp
    /\ qp_result[2] > 1

\* C7: the boundary Jacobian is 0 when v.n <= 0 and test * (v.n) * phi * rho * cp *
\* volfrac when v.n > 0, and it is the change of the residual for a unit change of
\* the coefficient of the unknown: both branch on the same predicate
C7_BoundaryJacobian ==
    Called("ThermalFluidFluxBC", "jacobian") =>
        \A p \in {CalledPoint} : \A vn \in {NormalSpeed(p)} :
            /\ vn[1] <= 0 => qp_result = R(0)
            /\ vn[1] > 0 =>
                 qp_result = RMul(RMul(p.test, vn), RMul(p.phi, HeatPerVolume(p)))
            /\ qp_result = RSub(ThermalFluidFluxBC_computeQpResidual(PerturbU(p)),
                                ThermalFluidFluxBC_computeQpResidual(p))

C7_Witness ==
    /\ Called("ThermalFluidFluxBC", "jacobian")
    /\ NormalSpeed(CalledPoint)[1] < 0
    /\ CalledPoint.density = R(2)
    /\ qp_result = R(0)

\* C8: when v.n = 0 the boundary residual is 0 whatever the interior value and the
\* outside temperature are, and the expressions of the two branches agree
C8_BranchContinuity ==
    Called("ThermalFluidFluxBC", "residual") =>
        \A p \in {CalledPoint} : \A vn \in {NormalSpeed(p)} :
            vn = R(0) =>
                /\ qp_result = R(0)
                /\ RMul(RMul(p.test, vn), RMul(p.u, HeatPerVolume(p)))
                     = RMul(RMul(p.test, vn), RMul(p.outside_temp, HeatPerVolume(p)))

C8_Witness ==
    /\ Called("ThermalFluidFluxBC", "residual")
    /\ NormalSpeed(CalledPoint) = R(0)
    /\ Vec(CalledPoint) # RV(0, 0, 0)
    /\ CalledPoint.u # CalledPoint.outside_temp
    /\ qp_result = R(0)

ElementaryKernels ==
    {"HeatConduction", "HeatConvection", "HeatSource", "HeatAccumulation",
     "HeatAdvectionConservative"}

\* the residual integrand of an elementary kernel at the point p
ResidualOf(kernel, p) ==
    CASE kernel = "HeatConduction" -> HeatConduction_computeQpResidual(p)
      [] kernel = "HeatConvection" -> HeatConvection_computeQpResidual(p)
      [] kernel = "HeatSource" -> HeatSource_computeQpResidual(p)
      [] kernel = "HeatAccumulation" ->
           CoefTimeDerivative_computeQpResidual(AccumulationCoef(p), p)
      [] kernel = "HeatAdvectionConservative" -> HeatAdvectionConservative_computeQpResidual(p)

\* C9: for the elementary kernels (the advection kernel without upwinding) the
\* off-diagonal Jacobian for a variable is the change of the residual integrand for
\* a unit change of that variable's coefficient, and so is the diagonal Jacobian
\* for the kernel's own variable (HeatAccumulation: off-diagonal only); the
\* diagonal Jacobian of HeatSource is 0
C9_KernelJacobians ==
    (qp_call.kernel \in ElementaryKernels
       /\ (qp_call.kernel = "HeatAdvectionConservative" => upwinding = "none")) =>
        \A p \in {CalledPoint} : \A k \in {qp_call.kernel} :
            /\ qp_call.fn = "offdiag" =>
                 qp_result = RSub(ResidualOf(k, Perturb(p, qp_call.jvar, 1)), ResidualOf(k, p))
            /\ (qp_call.fn = "jacobian" /\ k # "HeatAccumulation") =>
                 qp_result = RSub(ResidualOf(k, PerturbU(p)), ResidualOf(k, p))
            /\ (qp_call.fn = "jacobian" /\ k = "HeatSource") => qp_result = R(0)

C9_Witness ==
    /\ Called("HeatAdvectionConservative", "offdiag")
    /\ upwinding = "none"
    /\ qp_call.jvar = "vel_y"
    /\ CalledPoint.grad_test[1] # CalledPoint.grad_test[2]
    /\ qp_result[2] > 1

\* the coupled variables the boundary residual depends on
BoundaryCoupled ==
    {"vel_x", "vel_y", "vel_z", "density", "heat_capacity", "volume_frac",
     "outside_temperature"}

\* C10: for each of the seven coupled variables the boundary residual depends on,
\* the off-diagonal Jacobian of the boundary kernel is the partial derivative of
\* the residual by that variable times the trial function: the change of the
\* residual for a unit change of the coefficient, up or down, that stays on the
\* branch of the point
C10_BoundaryOffDiag ==
    (Called("ThermalFluidFluxBC", "offdiag") /\ qp_call.jvar \in BoundaryCoupled) =>
        \A p \in {CalledPoint} : \A h \in {1, -1} : \A q \in {Perturb(p, qp_call.jvar, h)} :
            Outflow(q) = Outflow(p) =>
                qp_result = RMul(R(h), RSub(ThermalFluidFluxBC_computeQpResidual(q),
                                            ThermalFluidFluxBC_computeQpResidual(p)))

----------------------------------------------------------------------------
(* Properties of the two entry points of the advection kernel *)

\* the non-upwinded integrand summed over the quadrature points with the weights
WeightedSum(f) ==
    SumOver([qp \in Qps |-> RMul(RMul(JxW[qp], coord[qp]), f[qp])], Qps)

\* what holds in every state: the default of the option, and for each option the
\* path the calls so far have taken
DispatchState ==
    /\ upwinding \in UpwindingTypes
    /\ upwinding_type = "unset" => upwinding = "none"
    /\ upwinding_type # "unset" => upwinding = upwinding_type
    /\ upwinding = "none" =>
         /\ last_call = "none"
         /\ qp_call.fn = "residual" => DOMAIN local_re = Nodes
         /\ DOMAIN local_re = Nodes =>
              \A i \in Nodes :
                  local_re[i] = WeightedSum([qp \in Qps |->
                                               RMul(negSpeedQp(FluxPoint(i, qp)), u[qp])])
         /\ qp_call.fn = "jacobian" =>
              \A i \in Nodes : \A j \in Trials :
                  local_ke[i][j] = WeightedSum([qp \in Qps |->
                                                  RMul(negSpeedQp(FluxPoint(i, qp)), phi[j][qp])])
    /\ upwinding = "full" =>
         /\ qp_call.kernel = "none"
         /\ last_call # "none" =>
              \A rf \in {RawFlux} :
                  /\ \A i \in Nodes : upwind_node[i] <=> (rf[i][1] >= 0)
                  /\ \A i \in OutflowNodes(rf) : local_re[i] = RMul(rf[i], u_nodal[i])

\* what holds of every call: it takes the path of the option and leaves the
\* option as it is
DispatchStep ==
    /\ upwinding' = upwinding
    /\ upwinding_type' = upwinding_type
    /\ upwinding = "none" =>
         /\ qp_call'.kernel = "HeatAdvectionConservative"
         /\ last_call' = "none"
    /\ upwinding = "full" =>
         /\ last_call' # "none"
         /\ qp_call'.kernel = "none"

\* C11: the option defaults to none; with none computeResidual and computeJacobian
\* assemble the pointwise integrands negSpeedQp * u and negSpeedQp * phi_j and never
\* run fullUpwind; with full both run fullUpwind and never the pointwise functions;
\* no call changes the option
C11_Dispatch == []DispatchState /\ [][DispatchStep]_vars

C11_Witness ==
    /\ upwinding_type = "unset"
    /\ qp_call.fn = "jacobian"
    /\ num_nodes >= 2 /\ n_points >= 2
    /\ DOMAIN local_re = Nodes
    /\ \E i \in Nodes : local_re[i] # R(0) /\ local_ke[i][0] # R(0)

----------------------------------------------------------------------------
(* Properties of the write-back to the save-in variable *)

\* the threads between the constructor and the destructor of the scoped_lock
InWriteBack == {t \in Threads : pc[t] \in {"read", "write", "unlock"}}

\* the entries of the threads' vectors that belong to the global dof d
Contributions(d) == {tn \in Threads \X Nodes : dofIndices(tn[1])[tn[2]] = d}

\* C12: with the save-in of the pass enabled at most one thread is inside the
\* write-back at any time, and once every thread has returned each entry of the
\* save-in variable is the sum of the entries of all threads' local vectors
\* (residual, or diagonal of the matrix) for that dof, shared dofs included
C12_SaveInExclusive ==
    /\ Cardinality(InWriteBack) <= 1
    /\ \A t \in InWriteBack : spin_mtx = t
    /\ (SaveInEnabled /\ \A t \in Threads : pc[t] = "done") =>
         \A d \in Dofs :
             solution[d] = SumOver([tn \in Threads \X Nodes |-> thread_vec[tn[1]][tn[2]]],
                                   Contributions(d))

C12_Witness ==
    /\ SaveInEnabled
    /\ \A t \in Threads : pc[t] = "done"
    /\ \E d \in Dofs :
         /\ Cardinality(Contributions(d)) >= 2
         /\ \A tn \in Contributions(d) :
              /\ thread_vec[tn[1]][tn[2]] # R(0)
              /\ thread_vec[tn[1]][tn[2]] # solution[d]

----------------------------------------------------------------------------
(* Properties of one kernel object visiting several elements *)

\* what fullUpwind yields on the element the kernel is on when nothing of an
\* earlier call is in the scratch or in the memory behind it
FreshResult(jac) ==
    FullUpwindResult(RawFlux, u_nodal, ZeroMatrix(0, 0), ZeroVector(0), jac, R(0))

----------------------------------------------------------------------------
(* Values of the convection and conduction kernels *)

\* the point of the example: h = 5, A = 3, volfrac = 0.5, u = 400, u_other = 300
ConvectionExample(p) ==
    /\ p.hs = R(5) /\ p.specarea = R(3) /\ p.volfrac = Half
    /\ p.u = R(400) /\ p.other_temp = R(300)

\* C14: the residual of HeatConvection is test * h * A * volfrac * (u - u_other),
\* test * 750 at the point of the example; its off-diagonal Jacobian for u_other is
\* -test * h * A * volfrac * phi, -test * 7.5 * phi at the point of the example, the
\* negative of what its diagonal Jacobian is at the same point
C14_ConvectionValue ==
    \A p \in {CalledPoint} :
        /\ Called("HeatConvection", "residual") =>
             /\ qp_result = RMul(p.test, RMul(RMul(RMul(p.hs, p.specarea), p.volfrac),
                                               RSub(p.u, p.other_temp)))
             /\ ConvectionExample(p) => qp_result = RMul(p.test, R(750))
        /\ (Called("HeatConvection", "offdiag") /\ qp_call.jvar = "coupled_temperature") =>
             /\ qp_result = RNeg(RMul(RMul(p.test, RMul(RMul(p.hs, p.specarea), p.volfrac)),
                                       p.phi))
             /\ ConvectionExample(p) => qp_result = RNeg(RMul(RMul(p.test, <<15, 2>>), p.phi))
             /\ qp_result = RNeg(HeatConvection_computeQpJacobian(p))
             /\ RAdd(qp_result, HeatConvection_computeQpJacobian(p)) = R(0)

C14_Witness ==
    /\ Called("HeatConvection", "offdiag")
    /\ qp_call.jvar = "coupled_temperature"
    /\ ConvectionExample(CalledPoint)
    /\ CalledPoint.test = Half
    /\ qp_result = <<-15, 16>>

\* the point of the example: volfrac = 1, k = 2, grad_u = grad_test = [1, 0, 0]
ConductionExample(p) ==
    /\ p.volfrac = R(1) /\ p.conductivity = R(2)
    /\ p.grad_u = RV(1, 0, 0) /\ p.grad_test = RV(1, 0, 0)

\* C15: the residual of HeatConduction is volfrac * k * (grad_test . grad_u) without
\* the quadrature weight (JxW * coord is 1/2 at every point here), and 2 at the
\* point of the example
C15_ConductionValue ==
    Called("HeatConduction", "residual") =>
        \A p \in {CalledPoint} :
            /\ RMul(p.JxW, p.coord) # R(1)
            /\ qp_result = RMul(RMul(p.volfrac, p.conductivity),
                                RAdd(RAdd(RMul(p.grad_test[1], p.grad_u[1]),
                                          RMul(p.grad_test[2], p.grad_u[2])),
                                     RMul(p.grad_test[3], p.grad_u[3])))
            /\ ConductionExample(p) => qp_result = R(2)

C15_Witness ==
    /\ Called("HeatConduction", "residual")
    /\ ConductionExample(CalledPoint)
    /\ qp_result = R(2)

----------------------------------------------------------------------------
(* The divisions by total_in *)

\* C16 as claimed: for an element without inflow nodes (total_in = 0) the
\* redistribution step of fullUpwind performs a division by zero
C16_UnguardedDivision ==
    (last_call # "none" /\ InflowNodes(RawFlux) = {}) => div_by_zero

\* C16 as amended: fullUpwind never tests total_in, but both divisions by total_in
\* are executed for inflow nodes only, one redistribution per inflow node, and
\* total_in > 0 as soon as there is an inflow node: no call divides by zero, for an
\* element without inflow nodes (total_in = 0) no division is executed, and the
\* local residual and matrix are finite
C16_DivisionOnlyForInflow ==
    last_call # "none" =>
        \A rf \in {RawFlux} :
            /\ ~div_by_zero
            /\ redistributed = Cardinality(InflowNodes(rf))
            /\ total_in = R(0) <=> InflowNodes(rf) = {}
            /\ InflowNodes(rf) # {} => RGt0(total_in)
            /\ \A i \in Nodes : IsFinite(local_re[i])
            /\ last_call = "jacobian" =>
                 \A i \in Nodes : \A j \in Trials : IsFinite(local_ke[i][j])

C16_Witness ==
    /\ last_call = "jacobian"
    /\ num_nodes >= 2
    /\ InflowNodes(RawFlux) = {}
    /\ total_in = R(0)
    /\ total_mass_out # R(0)
    /\ ~div_by_zero

----------------------------------------------------------------------------
(* The blocks of the coupled variables under full upwinding *)

\* the point p of negSpeedQp with the variable coupled as jvar raised by d
Raise(p, jvar, d) ==
    CASE jvar = "vel_x" -> [p EXCEPT !.ux = RAdd(@, d)]
      [] jvar = "vel_y" -> [p EXCEPT !.uy = RAdd(@, d)]
      [] jvar = "vel_z" -> [p EXCEPT !.uz = RAdd(@, d)]
      [] jvar = "density" -> [p EXCEPT !.density = RAdd(@, d)]
      [] jvar = "heat_capacity" -> [p EXCEPT !.heat_cap = RAdd(@, d)]
      [] jvar = "volume_frac" -> [p EXCEPT !.volfrac = RAdd(@, d)]
      [] OTHER -> p

\* the derivative of the raw nodal fluxes by the coefficient of trial function j of
\* the variable jvar: negSpeedQp is linear in each variable, and the value of the
\* variable at a quadrature point changes by phi[j][qp] per unit of the coefficient
FluxDerivative(jvar, j) ==
    [i \in Nodes |->
        WeightedSum([qp \in Qps |->
                        RSub(negSpeedQp(Raise(FluxPoint(i, qp), jvar, phi[j][qp])),
                             negSpeedQp(FluxPoint(i, qp)))])]

\* the derivative of the full-upwind residual by the same coefficient, for the raw
\* fluxes rf and their derivatives d: rf[i] * u_nodal[i] at an outflow node i and
\* rf[n] * out / tin at an inflow node n, by the product and quotient rules
ResidualDerivative(rf, d) ==
    LET out  == ExpectedMassOut(rf)
        tin  == ExpectedTotalIn(rf)
        dout == SumOver([i \in Nodes |-> RMul(d[i], u_nodal[i])], OutflowNodes(rf))
        dtin == SumOver([i \in Nodes |-> RNeg(d[i])], InflowNodes(rf))
    IN  [i \in Nodes |->
            IF i \in OutflowNodes(rf) THEN RMul(d[i], u_nodal[i])
            ELSE RAdd(RAdd(RMul(d[i], RDiv(out, tin)), RMul(rf[i], RDiv(dout, tin))),
                      RNeg(RMul(RMul(rf[i], out), RDiv(dtin, RMul(tin, tin)))))]

AdvectionCoupled == {"vel_x", "vel_y", "vel_z", "density", "heat_capacity", "volume_frac"}

\* C17: with full upwinding, the block the kernel supplies for each of its six
\* coupled variables (computeQpOffDiagJacobian summed over the quadrature points
\* with the weights) is the derivative of the full-upwind residual by the nodal
\* coefficients of that variable, where that derivative exists (no node with a
\* raw flux of 0, where the classification changes)
C17_CoupledJacobian ==
    (upwinding = "full" /\ qp_call.fn = "offdiag" /\ qp_call.jvar \in AdvectionCoupled) =>
        \A rf \in {RawFlux} :
            (\A i \in Nodes : rf[i] # R(0)) =>
                \A j \in Trials : \A dr \in {ResidualDerivative(rf, FluxDerivative(qp_call.jvar, j))} :
                    \A i \in Nodes : local_ke[i][j] = dr[i]

----------------------------------------------------------------------------
(* The diagonal entries of the outflow nodes *)

\* C18: after a Jacobian pass on an element whose trial-function count differs
\* from its test-function count nothing has been added to the row of an outflow
\* node, its diagonal entry (n, n) included where the matrix has one; on an element
\* with equal counts the diagonal entry of an outflow node n and the sensitivity
\* dtotal_mass_out[n] are the raw flux of n
C18_NonNodalFamilies ==
    last_call = "jacobian" =>
        \A rf \in {RawFlux} : \A n \in OutflowNodes(rf) :
            /\ num_nodes # phi_size => \A j \in Trials : local_ke[n][j] = R(0)
            /\ num_nodes = phi_size =>
                 /\ local_ke[n][n] = rf[n]
                 /\ dtotal_mass_out[n] = rf[n]

C18_Witness ==
    /\ last_call = "jacobian"
    /\ num_nodes # phi_size
    /\ \E rf \in {RawFlux} :
         /\ rf[0][1] > 0
         /\ InflowNodes(rf) # {}
         /\ local_ke[0][0] = R(0)
         /\ dtotal_mass_out[0] = R(0)

----------------------------------------------------------------------------
(* The coefficient of HeatAccumulation *)

\* C19: after every call of computeQpResidual or computeQpJacobian of
\* HeatAccumulation, whatever calls at other quadrature points went before, _coef is
\* rho * cp * volfrac at the quadrature point of the call and the value returned is
\* that of the time-derivative term weighted by it
C19_CoefficientFresh ==
    \A p \in {CalledPoint} : \A c \in {RMul(p.density, RMul(p.heat_cap, p.volfrac))} :
        /\ Called("HeatAccumulation", "residual") =>
             /\ coef = c
             /\ qp_result = CoefTimeDerivative_computeQpResidual(c, p)
        /\ Called("HeatAccumulation", "jacobian") =>
             /\ coef = c
             /\ qp_result = CoefTimeDerivative_computeQpJacobian(c, p)

\* a call at a point whose rho * cp * volfrac differs from that of another point
\* of the element and from the coefficient the kernel starts with
C19_Witness ==
    /\ Called("HeatAccumulation", "jacobian")
    /\ \E qp \in Qps :
         RProd(<<density[qp], heat_cap[qp], volfrac[qp]>>) # coef
    /\ coef # R(1)
    /\ qp_result # R(0)

----------------------------------------------------------------------------
(* The nodal values of the inflow nodes *)

\* the values an inflow node's u_nodal is replaced by
OtherValues(v) == (USet \cup {R(0), RAdd(v, R(1))}) \ {v}

\* C20: for the raw fluxes of the element the local residual of a residual pass
\* is the same whatever u_nodal is at an inflow node, and after a Jacobian pass
\* every column of the local matrix that belongs to an inflow node is zero
C20_NonInterference ==
    \A rf \in {RawFlux} :
        /\ last_call = "residual" =>
             \A j \in InflowNodes(rf) : \A v \in OtherValues(u_nodal[j]) :
                 ResidualFor(rf, [u_nodal EXCEPT ![j] = v]) = local_re
        /\ last_call = "jacobian" =>
             \A j \in InflowNodes(rf) \cap Trials :
                 \A n \in Nodes : local_ke[n][j] = R(0)

\* a residual pass on an element with an inflow node of nonzero nodal value that
\* receives mass from an outflow node
C20_Witness ==
    /\ last_call = "residual"
    /\ \E rf \in {RawFlux} : \E j \in InflowNodes(rf) :
         /\ u_nodal[j] # R(0)
         /\ local_re[j] # R(0)
         /\ OutflowNodes(rf) # {}

----------------------------------------------------------------------------
(* The column sums of the local matrix *)

\* the sum of column j of the local matrix over all rows
ColumnSum(j) == SumOver([n \in Nodes |-> local_ke[n][j]], Nodes)

\* C21: after a Jacobian pass with as many trial as test functions on an element
\* with total_in > 0, every column of the local matrix sums to zero over the rows:
\* the column of an outflow node j holds rawFlux[j] on the diagonal and
\* rawFlux[n] * rawFlux[j] / total_in in every inflow row n, nothing else
C21_ColumnSums ==
    (last_call = "jacobian" /\ num_nodes = phi_size /\ RGt0(total_in)) =>
        \A rf \in {RawFlux} :
            \A j \in Trials :
                /\ ColumnSum(j) = R(0)
                /\ j \in OutflowNodes(rf) =>
                     /\ local_ke[j][j] = rf[j]
                     /\ \A n \in InflowNodes(rf) :
                          local_ke[n][j] = RDiv(RMul(rf[n], rf[j]), total_in)
                     /\ \A n \in OutflowNodes(rf) \ {j} : local_ke[n][j] = R(0)

\* a Jacobian pass with two inflow rows whose entries cancel a nonzero diagonal
C21_Witness ==
    /\ last_call = "jacobian"
    /\ num_nodes = phi_size
    /\ RGt0(total_in)
    /\ \E rf \in {RawFlux} : \E j \in OutflowNodes(rf) :
         /\ local_ke[j][j] # R(0)
         /\ Cardinality(InflowNodes(rf)) >= 2
         /\ \A n \in InflowNodes(rf) : local_ke[n][j] # R(0)

====
